---- MODULE Spec2Model ----
(***************************************************************************)
(* Vector-space retrieval pipeline of BuscaVetorizada: the                  *)
(* GeradorListaInvertida builds an inverted list from XML records, the     *)
(* Indexador turns an inverted list into a TF-IDF model with per-document  *)
(* norms, and the Buscador ranks documents against queries by cosine       *)
(* similarity.                                                             *)
(*                                                                         *)
(* Python floats are modelled in fixed point: a real x is the integer      *)
(* x * Escala (thousandths).  Python dicts keep insertion order, so a dict *)
(* is a sequence of <<key, value>> pairs with distinct keys.               *)
(***************************************************************************)
EXTENDS Integers, Sequences, FiniteSets, TLC

\* ------------------------------------------------------------------ bounds
\* longest occurrence list of one term in the inverted-list file
MaxOcc == 2
\* characters of query text in the query file, all rows together
MaxText == 3

\* the terms of the inverted-list file (a word is a sequence of characters)
Termos == {<<"A">>, <<"B">>}
\* document ids that occurrence lists may hold; -1 is a malformed id
DocIds == {-1, 1, 2, 3}
\* document ids of the collections the Buscador's models are built from
DocIdsBusca == {1, 2}
\* query numbers of the query file
QueryIds == {1, 2}
\* characters of a query text
Chars == {" ", "A", "B"}

\* ------------------------------------------------------------ fixed point
\* the float 1.0
Escala == 1000

\* math.log10 of the integers 1..8, in thousandths
Log10Tabela == <<0, 301, 477, 602, 699, 778, 845, 903>>

\* math.log10(n / d) for integers n >= d >= 1
Log10Razao(n, d) == Log10Tabela[n] - Log10Tabela[d]

\* math.sqrt on non-negative integers (floor)
RECURSIVE RaizInteira(_)
RaizInteira(n) ==
    IF n < 2 THEN n
    ELSE LET s == 2 * RaizInteira(n \div 4)
         IN  IF (s + 1) * (s + 1) <= n THEN s + 1 ELSE s

\* ---------------------------------------------------------- Python dicts
DictKeys(d) == {d[i][1] : i \in DOMAIN d}

DictHas(d, k) == \E i \in DOMAIN d : d[i][1] = k

DictGet(d, k) == d[CHOOSE i \in DOMAIN d : d[i][1] = k][2]

\* d.get(k, padrao), and the read of a defaultdict
DictGetOr(d, k, padrao) == IF DictHas(d, k) THEN DictGet(d, k) ELSE padrao

\* d[k] = v: an existing key keeps its position, a new key goes last
DictSet(d, k, v) ==
    IF DictHas(d, k)
    THEN [i \in DOMAIN d |-> IF d[i][1] = k THEN <<k, v>> ELSE d[i]]
    ELSE Append(d, <<k, v>>)

\* set(lista)
ConjuntoDe(lista) == {lista[i] : i \in DOMAIN lista}

\* sequences over S of length at most n
SeqAte(S, n) == UNION {[1..k -> S] : k \in 0..n}

\* --------------------------------------------------------------- Indexador
\* frequencia_termo_doc[doc_id] += 1 over lista_docs, in list order
RECURSIVE ContarFrequencias(_, _)
ContarFrequencias(lista_docs, freq) ==
    IF lista_docs = <<>> THEN freq
    ELSE LET doc_id == Head(lista_docs)
         IN  ContarFrequencias(Tail(lista_docs),
                               DictSet(freq, doc_id, DictGetOr(freq, doc_id, 0) + 1))

\* tf without the leading 1
TfSemUm(freq) == Log10Tabela[freq]

\* tf = 1 + math.log10(freq)
Tf(freq) == Escala + Log10Tabela[freq]

\* peso_tfidf = tf * idf
PesoTfIdf(freq, idf) == (Tf(freq) * idf) \div Escala

\* the weights of one term, leaving zero weights out of the table
RECURSIVE GravarPesosSemZeros(_, _, _)
GravarPesosSemZeros(freqs, idf, pesos) ==
    IF freqs = <<>> THEN pesos
    ELSE GravarPesosSemZeros(Tail(freqs), idf,
             IF PesoTfIdf(Head(freqs)[2], idf) = 0 THEN pesos
             ELSE DictSet(pesos, Head(freqs)[1], PesoTfIdf(Head(freqs)[2], idf)))

\* self.modelo[palavra][doc_id] = peso_tfidf for every counted document
RECURSIVE GravarPesos(_, _, _)
GravarPesos(freqs, idf, pesos) ==
    IF freqs = <<>> THEN pesos
    ELSE GravarPesos(Tail(freqs), idf,
                     DictSet(pesos, Head(freqs)[1], PesoTfIdf(Head(freqs)[2], idf)))

\* the first loop passing over the terms whose occurrence list is empty
RECURSIVE PassoPesosPulandoVazias(_, _, _)
PassoPesosPulandoVazias(itens, num_total_documentos, mod) ==
    IF itens = <<>> THEN [erro |-> FALSE, modelo |-> mod]
    ELSE LET palavra == Head(itens)[1]
             lista_docs == Head(itens)[2]
             num_docs_com_palavra == Cardinality(ConjuntoDe(lista_docs))
         IN  IF num_docs_com_palavra = 0
             THEN PassoPesosPulandoVazias(Tail(itens), num_total_documentos, mod)
             ELSE LET idf == Log10Razao(num_total_documentos, num_docs_com_palavra)
                      freqs == ContarFrequencias(lista_docs, <<>>)
                      pesos == GravarPesos(freqs, idf, DictGetOr(mod, palavra, <<>>))
                  IN  PassoPesosPulandoVazias(Tail(itens), num_total_documentos,
                                              DictSet(mod, palavra, pesos))

\* first loop of _calcular_pesos over self.lista_invertida.items(); the
\* division by num_docs_com_palavra raises ZeroDivisionError on an empty list
RECURSIVE PassoPesos(_, _, _)
PassoPesos(itens, num_total_documentos, mod) ==
    IF itens = <<>> THEN [erro |-> FALSE, modelo |-> mod]
    ELSE LET palavra == Head(itens)[1]
             lista_docs == Head(itens)[2]
             num_docs_com_palavra == Cardinality(ConjuntoDe(lista_docs))
         IN  IF num_docs_com_palavra = 0
             THEN [erro |-> TRUE, modelo |-> mod]
             ELSE LET idf == Log10Razao(num_total_documentos, num_docs_com_palavra)
                      freqs == ContarFrequencias(lista_docs, <<>>)
                      pesos == GravarPesos(freqs, idf, DictGetOr(mod, palavra, <<>>))
                  IN  PassoPesos(Tail(itens), num_total_documentos,
                                 DictSet(mod, palavra, pesos))

\* the squared weight assigned instead of added
AcumularNormaSemSoma(normas, doc_id, peso) == DictSet(normas, doc_id, peso * peso)

\* self.normas_documentos[doc_id] += peso ** 2
AcumularNorma(normas, doc_id, peso) ==
    DictSet(normas, doc_id, DictGetOr(normas, doc_id, 0) + peso * peso)

\* the inner loop over self.modelo[palavra].items()
RECURSIVE SomarQuadradosTermo(_, _)
SomarQuadradosTermo(pesos, normas) ==
    IF pesos = <<>> THEN normas
    ELSE SomarQuadradosTermo(Tail(pesos),
                             AcumularNorma(normas, Head(pesos)[1], Head(pesos)[2]))

\* the loop over the terms of self.modelo
RECURSIVE SomarQuadrados(_, _)
SomarQuadrados(mod, normas) ==
    IF mod = <<>> THEN normas
    ELSE SomarQuadrados(Tail(mod), SomarQuadradosTermo(Head(mod)[2], normas))

\* self.normas_documentos[doc_id] = math.sqrt(...) for every document
TirarRaizes(normas) ==
    [i \in DOMAIN normas |-> <<normas[i][1], RaizInteira(normas[i][2])>>]

\* _calcular_pesos without the early return on an empty collection
CalcularPesosSemGuarda(lista, docs, mod, normas) ==
    LET p == PassoPesos(lista, Cardinality(docs), mod)
    IN  IF p.erro
        THEN [erro |-> TRUE, modelo |-> p.modelo, normas |-> normas]
        ELSE [erro |-> FALSE, modelo |-> p.modelo,
              normas |-> TirarRaizes(SomarQuadrados(p.modelo, normas))]

\* _calcular_pesos on the loaded state: the tables it leaves and whether it raised
CalcularPesosDe(lista, docs, mod, normas) ==
    LET num_total_documentos == Cardinality(docs)
    IN  IF num_total_documentos = 0
        THEN [erro |-> FALSE, modelo |-> mod, normas |-> normas]
        ELSE LET p == PassoPesos(lista, num_total_documentos, mod)
             IN  IF p.erro
                 THEN [erro |-> TRUE, modelo |-> p.modelo, normas |-> normas]
                 ELSE [erro |-> FALSE, modelo |-> p.modelo,
                       normas |-> TirarRaizes(SomarQuadrados(p.modelo, normas))]

\* one field of a CSV row: the text of a Python list literal
ListasLiterais(ids) ==
    {[itens |-> s, malformado |-> FALSE] : s \in SeqAte(ids, MaxOcc)}
        \cup {[itens |-> <<>>, malformado |-> TRUE]}

\* the inverted-list files: no row, one row or two rows of (term, list literal)
ArquivosLista(ids) ==
    {<<>>}
        \cup {<<<<t, l>>>> : t \in Termos, l \in ListasLiterais(ids)}
        \cup {<<<<t1, l1>>, <<t2, l2>>>> :
                 t1 \in Termos, t2 \in Termos,
                 l1 \in ListasLiterais(ids), l2 \in ListasLiterais(ids)}

\* the load keeping only the ids of the last row as the collection
RECURSIVE CarregarSubstituindo(_, _, _)
CarregarSubstituindo(linhas, lista, docs) ==
    IF linhas = <<>> THEN [erro |-> FALSE, lista |-> lista, docs |-> docs]
    ELSE LET palavra == Head(linhas)[1]
             lista_docs_str == Head(linhas)[2]
         IN  IF lista_docs_str.malformado
             THEN [erro |-> TRUE, lista |-> lista, docs |-> docs]
             ELSE CarregarSubstituindo(Tail(linhas),
                                       DictSet(lista, palavra, lista_docs_str.itens),
                                       ConjuntoDe(lista_docs_str.itens))

\* rows read by _carregar_lista_invertida before ast.literal_eval raises
RECURSIVE CarregarDe(_, _, _)
CarregarDe(linhas, lista, docs) ==
    IF linhas = <<>> THEN [erro |-> FALSE, lista |-> lista, docs |-> docs]
    ELSE LET palavra == Head(linhas)[1]
             lista_docs_str == Head(linhas)[2]
         IN  IF lista_docs_str.malformado
             THEN [erro |-> TRUE, lista |-> lista, docs |-> docs]
             ELSE CarregarDe(Tail(linhas),
                             DictSet(lista, palavra, lista_docs_str.itens),
                             docs \cup ConjuntoDe(lista_docs_str.itens))

\* the pickled object written by _salvar_modelo
ModeloCompleto(mod, normas) == [modelo_tfidf |-> mod, normas_documentos |-> normas]

\* ---------------------------------------------------------------- Buscador
\* query_text.split(): maximal runs of non-blank characters
RECURSIVE SplitDe(_, _, _)
SplitDe(texto, atual, palavras) ==
    IF texto = <<>>
    THEN IF atual = <<>> THEN palavras ELSE Append(palavras, atual)
    ELSE IF Head(texto) = " "
         THEN SplitDe(Tail(texto), <<>>,
                      IF atual = <<>> THEN palavras ELSE Append(palavras, atual))
         ELSE SplitDe(Tail(texto), Append(atual, Head(texto)), palavras)

Split(texto) == SplitDe(texto, <<>>, <<>>)

\* norma_consulta = math.sqrt(len(termos_consulta))
NormaConsulta(termos_consulta) == RaizInteira(Len(termos_consulta) * Escala * Escala)

\* scores_docs[doc_id] += peso * 1 over the entries of one term
RECURSIVE AcumularTermo(_, _)
AcumularTermo(pesos, scores) ==
    IF pesos = <<>> THEN scores
    ELSE LET doc_id == Head(pesos)[1]
             peso == Head(pesos)[2]
         IN  AcumularTermo(Tail(pesos),
                           DictSet(scores, doc_id, DictGetOr(scores, doc_id, 0) + peso * 1))

\* the loop over termos_consulta, leaving it after the first term of the model
RECURSIVE AcumularScoresPrimeiroTermo(_, _, _)
AcumularScoresPrimeiroTermo(termos, mod, scores) ==
    IF termos = <<>> THEN scores
    ELSE IF DictHas(mod, Head(termos))
         THEN AcumularTermo(DictGet(mod, Head(termos)), scores)
         ELSE AcumularScoresPrimeiroTermo(Tail(termos), mod, scores)

\* the loop over termos_consulta: a term outside the model adds nothing
RECURSIVE AcumularScores(_, _, _)
AcumularScores(termos, mod, scores) ==
    IF termos = <<>> THEN scores
    ELSE AcumularScores(Tail(termos), mod,
                        IF DictHas(mod, Head(termos))
                        THEN AcumularTermo(DictGet(mod, Head(termos)), scores)
                        ELSE scores)

\* scores_docs[doc_id] /= (norma_doc * norma_consulta), only when norma_doc > 0
Similaridade(score, norma_doc, norma_consulta) ==
    IF norma_doc > 0
    THEN (score * Escala) \div ((norma_doc * norma_consulta) \div Escala)
    ELSE score

\* the loop over scores_docs, dropping the documents whose norm is 0
RECURSIVE NormalizarExcluindo(_, _, _)
NormalizarExcluindo(scores, normas, norma_consulta) ==
    IF scores = <<>> THEN <<>>
    ELSE LET norma_doc == DictGetOr(normas, Head(scores)[1], Escala)
             resto == NormalizarExcluindo(Tail(scores), normas, norma_consulta)
         IN  IF norma_doc > 0
             THEN <<<<Head(scores)[1],
                      Similaridade(Head(scores)[2], norma_doc, norma_consulta)>>>> \o resto
             ELSE resto

\* the loop over scores_docs; a document without a norm entry gets norm 1
Normalizar(scores, normas, norma_consulta) ==
    [i \in DOMAIN scores |->
        <<scores[i][1],
          Similaridade(scores[i][2], DictGetOr(normas, scores[i][1], Escala),
                       norma_consulta)>>]

\* x goes after every item whose score is at most its own
InserirCrescente(saida, x) ==
    LET k == Cardinality({i \in DOMAIN saida : saida[i][2] <= x[2]})
    IN  SubSeq(saida, 1, k) \o <<x>> \o SubSeq(saida, k + 1, Len(saida))

\* x goes before the items whose score equals its own
InserirAntesDosIguais(saida, x) ==
    LET k == Cardinality({i \in DOMAIN saida : saida[i][2] > x[2]})
    IN  SubSeq(saida, 1, k) \o <<x>> \o SubSeq(saida, k + 1, Len(saida))

\* x goes after every item whose score is at least its own
InserirDecrescente(saida, x) ==
    LET k == Cardinality({i \in DOMAIN saida : saida[i][2] >= x[2]})
    IN  SubSeq(saida, 1, k) \o <<x>> \o SubSeq(saida, k + 1, Len(saida))

\* the items left in accumulation order
OrdenarSemOrdenar(itens, saida) == saida \o itens

\* sorted(scores_docs.items(), key=score, reverse=True): a stable sort
RECURSIVE OrdenarDecrescente(_, _)
OrdenarDecrescente(itens, saida) ==
    IF itens = <<>> THEN saida
    ELSE OrdenarDecrescente(Tail(itens), InserirDecrescente(saida, Head(itens)))

\* posicao = i + 1
Posicao(i) == i

\* the list of (posicao, doc_id, score) triples
Formatar(docs_ranqueados) ==
    [i \in DOMAIN docs_ranqueados |->
        <<Posicao(i), docs_ranqueados[i][1], docs_ranqueados[i][2]>>]

\* no query is skipped
ConsultaVaziaNunca(termos_consulta) == FALSE

\* a query without terms is skipped
ConsultaVazia(termos_consulta) == NormaConsulta(termos_consulta) = 0

\* the body of the loop of _realizar_buscas for one query that is not skipped
BuscarConsulta(query_text, mod, normas) ==
    LET termos_consulta == Split(query_text)
        scores_docs == AcumularScores(termos_consulta, mod, <<>>)
        normalizados == Normalizar(scores_docs, normas, NormaConsulta(termos_consulta))
    IN  Formatar(OrdenarDecrescente(normalizados, <<>>))

\* _realizar_buscas over self.consultas.items()
RECURSIVE RealizarBuscasDe(_, _, _, _)
RealizarBuscasDe(cons, mod, normas, resultados) ==
    IF cons = <<>> THEN resultados
    ELSE LET query_num == Head(cons)[1]
             query_text == Head(cons)[2]
         IN  RealizarBuscasDe(Tail(cons), mod, normas,
                 IF ConsultaVazia(Split(query_text))
                 THEN resultados
                 ELSE DictSet(resultados, query_num,
                              BuscarConsulta(query_text, mod, normas)))

\* sorted(self.resultados_finais.items()): rows by ascending query number
RECURSIVE OrdenarPorConsulta(_)
OrdenarPorConsulta(resultados) ==
    IF resultados = <<>> THEN <<>>
    ELSE LET m == CHOOSE i \in DOMAIN resultados :
                      \A j \in DOMAIN resultados : resultados[i][1] <= resultados[j][1]
             resto == [j \in 1..(Len(resultados) - 1) |->
                          IF j < m THEN resultados[j] ELSE resultados[j + 1]]
         IN  <<resultados[m]>> \o OrdenarPorConsulta(resto)

\* the query files: no row, one row or two rows of (query number, text), with at
\* most MaxText characters of query text in the whole file
ArquivosConsultas ==
    {<<>>}
        \cup {<<<<n, t>>>> : n \in QueryIds, t \in SeqAte(Chars, MaxText)}
        \cup UNION {{<<<<n1, t1>>, <<n2, t2>>>> :
                        n1 \in QueryIds, n2 \in QueryIds,
                        t1 \in [1..k -> Chars], t2 \in SeqAte(Chars, MaxText - k)} :
                    k \in 0..MaxText}

\* self.consultas[int(query_num)] = query_text for every row
RECURSIVE CarregarConsultasDe(_, _)
CarregarConsultasDe(linhas, cons) ==
    IF linhas = <<>> THEN cons
    ELSE CarregarConsultasDe(Tail(linhas), DictSet(cons, Head(linhas)[1], Head(linhas)[2]))

\* what executar computes on every inverted-list file over ids that loads
ExecucoesIndexador(ids) ==
    {CalcularPesosDe(r.lista, r.docs, <<>>, <<>>) :
        r \in {q \in {CarregarDe(f, <<>>, {}) : f \in ArquivosLista(ids)} : ~q.erro}}

\* the model files an Indexador run leaves: a run that raised, or whose model is
\* empty, writes none
ModelosSalvos ==
    {<<ModeloCompleto(c.modelo, c.normas)>> :
        c \in {e \in ExecucoesIndexador(DocIdsBusca) : ~e.erro /\ e.modelo # <<>>}}

\* --------------------------------------------------- GeradorListaInvertida
\* records of the whole collection of source files
MaxRegistros == 2

\* texts of a RECORDNUM element
TextosNumero == {<<"1">>, <<"2", " ">>, <<"x">>}
\* texts of an ABSTRACT element; <<>> is an element that is absent or empty
TextosAbstract == {<<>>, <<"A", "b">>}
\* texts of an EXTRACT element; <<>> is an element that is absent or empty
TextosExtract == {<<>>, <<"b", " ", "b", "a">>}

\* a RECORD element; recordnum is <<>> without a RECORDNUM element, else <<text>>
Registros ==
    [recordnum : {<<>>} \cup {<<t>> : t \in TextosNumero},
     abstract : TextosAbstract,
     extract : TextosExtract]

\* a source file that ET.parse rejects, or cannot open, has valido = FALSE
ArquivosFonte(n) ==
    {[valido |-> FALSE, registros |-> <<>>]}
        \cup {[valido |-> TRUE, registros |-> rs] : rs \in SeqAte(Registros, n)}

\* the collections named by the LEIA instructions: one or two source files with
\* at most MaxRegistros records in all
Colecoes ==
    {<<f>> : f \in ArquivosFonte(MaxRegistros)}
        \cup UNION {{<<f1, f2>> : f2 \in ArquivosFonte(MaxRegistros - Len(f1.registros))} :
                    f1 \in ArquivosFonte(MaxRegistros)}

\* the default of self.arquivo_escrita set by __init__
ArquivoEscritaPadrao == "resultados\\lista_invertida.csv"

\* int(text.strip()): the integer value of a numeral between blanks; anything
\* else raises ValueError
InteiroDe(texto) ==
    LET partes == Split(texto)
    IN  IF Len(partes) = 1 /\ partes[1] = <<"1">> THEN [erro |-> FALSE, valor |-> 1]
        ELSE IF Len(partes) = 1 /\ partes[1] = <<"2">> THEN [erro |-> FALSE, valor |-> 2]
        ELSE [erro |-> TRUE, valor |-> 0]

\* str.lower on the letters of the texts
Minuscula(c) == IF c = "A" THEN "a" ELSE IF c = "B" THEN "b" ELSE c

\* str.upper on the letters of the texts
Maiuscula(c) == IF c = "a" THEN "A" ELSE IF c = "b" THEN "B" ELSE c

\* the words of at least two letters
RECURSIVE DuasLetrasOuMais(_)
DuasLetrasOuMais(palavras) ==
    IF palavras = <<>> THEN <<>>
    ELSE (IF Len(Head(palavras)) >= 2 THEN <<Head(palavras)>> ELSE <<>>)
             \o DuasLetrasOuMais(Tail(palavras))

\* _normalizar_palavra on a text of unaccented letters and blanks: lower case,
\* then the maximal runs of two or more letters
NormalizarPalavra(texto) ==
    DuasLetrasOuMais(Split([i \in DOMAIN texto |-> Minuscula(texto[i])]))

\* self.lista_invertida[palavra].append(record_num) for every word of a record
RECURSIVE AdicionarPalavras(_, _, _)
AdicionarPalavras(palavras, record_num, lista) ==
    IF palavras = <<>> THEN lista
    ELSE AdicionarPalavras(Tail(palavras), record_num,
             DictSet(lista, Head(palavras),
                     Append(DictGetOr(lista, Head(palavras), <<>>), record_num)))

\* the loop over root.findall('RECORD') of one file: the list it leaves and
\* whether int() raised, which leaves the loop
RECURSIVE ProcessarRegistros(_, _)
ProcessarRegistros(registros, lista) ==
    IF registros = <<>> THEN [erro |-> FALSE, lista |-> lista]
    ELSE LET record == Head(registros)
         IN  IF record.recordnum = <<>>
             THEN ProcessarRegistros(Tail(registros), lista)
             ELSE LET record_num == InteiroDe(record.recordnum[1])
                      texto == IF record.abstract # <<>> THEN record.abstract
                               ELSE record.extract
                  IN  IF record_num.erro THEN [erro |-> TRUE, lista |-> lista]
                      ELSE IF texto = <<>>
                           THEN ProcessarRegistros(Tail(registros), lista)
                           ELSE ProcessarRegistros(Tail(registros),
                                    AdicionarPalavras(NormalizarPalavra(texto),
                                                      record_num.valor, lista))

\* the loop of _processar_arquivos over self.arquivos_leitura: an exception
\* inside a file is logged and the loop goes on with the next file
RECURSIVE ProcessarArquivosDe(_, _)
ProcessarArquivosDe(arquivos, lista) ==
    IF arquivos = <<>> THEN lista
    ELSE ProcessarArquivosDe(Tail(arquivos),
             IF Head(arquivos).valido
             THEN ProcessarRegistros(Head(arquivos).registros, lista).lista
             ELSE lista)

\* the order of Python strings on words of the letters a and b
RECURSIVE PalavraMenor(_, _)
PalavraMenor(p, q) ==
    IF q = <<>> THEN FALSE
    ELSE IF p = <<>> THEN TRUE
    ELSE IF Head(p) = Head(q) THEN PalavraMenor(Tail(p), Tail(q))
    ELSE Head(p) = "a"

\* sorted(self.lista_invertida.items()): rows by ascending word
RECURSIVE OrdenarPorPalavra(_)
OrdenarPorPalavra(lista) ==
    IF lista = <<>> THEN <<>>
    ELSE LET m == CHOOSE i \in DOMAIN lista :
                      \A j \in DOMAIN lista : j # i => PalavraMenor(lista[i][1], lista[j][1])
             resto == [j \in 1..(Len(lista) - 1) |->
                          IF j < m THEN lista[j] ELSE lista[j + 1]]
         IN  <<lista[m]>> \o OrdenarPorPalavra(resto)

\* the rows of the CSV: the word in upper case and the list of document numbers
LinhasSaida(lista) ==
    LET ordenada == OrdenarPorPalavra(lista)
    IN  [i \in DOMAIN ordenada |->
            <<[k \in DOMAIN ordenada[i][1] |-> Maiuscula(ordenada[i][1][k])],
              ordenada[i][2]>>]

VARIABLES
    index_cfg,          \* instructions present in INDEX.CFG
    arquivo_lista,      \* rows of the inverted-list CSV
    ix_pc,              \* position of Indexador.executar; "falhou:<method>" after a raise
    arquivo_leitura,    \* Indexador.arquivo_leitura is set
    arquivo_escrita,    \* Indexador.arquivo_escrita is set
    lista_invertida,    \* Indexador.lista_invertida
    documentos,         \* Indexador.documentos
    modelo,             \* Indexador.modelo
    normas_documentos,  \* Indexador.normas_documentos
    arquivo_modelo,     \* the model file: <<>> when absent, else <<pickled object>>
    bs_pc,              \* position of Buscador.executar; "falhou:<method>" after a raise
    bs_config,          \* instructions of BUSCA.CFG the Buscador has read
    modelo_tfidf,       \* Buscador.modelo_tfidf
    bs_normas,          \* Buscador.normas_documentos
    consultas,          \* Buscador.consultas
    resultados_finais,  \* Buscador.resultados_finais
    arquivo_resultados, \* the results CSV: <<>> when absent, else <<rows>>
    gl_cfg,             \* instructions present in GLI.CFG
    fontes,             \* the source files the LEIA instructions name, in order
    gl_pc,              \* position of GeradorListaInvertida.executar
    arquivos_leitura,   \* GeradorListaInvertida.arquivos_leitura
    gl_arquivo_escrita, \* GeradorListaInvertida.arquivo_escrita
    gl_lista_invertida, \* GeradorListaInvertida.lista_invertida
    arquivo_saida,      \* the inverted-list CSV written: <<>> when absent
    programa,           \* the script whose __main__ is running
    execucao,           \* which run of the script this is: 1 or 2
    primeira            \* <<>>, or what the first run of the Indexador left

ix_vars == <<index_cfg, arquivo_lista, ix_pc, arquivo_leitura, arquivo_escrita,
             lista_invertida, documentos, modelo, normas_documentos>>

bs_vars == <<bs_pc, bs_config, modelo_tfidf, bs_normas, consultas, resultados_finais,
             arquivo_resultados>>

gl_vars == <<gl_cfg, fontes, gl_pc, arquivos_leitura, gl_arquivo_escrita,
             gl_lista_invertida, arquivo_saida>>

ex_vars == <<programa, execucao, primeira>>

vars == <<ix_vars, arquivo_modelo, bs_vars, gl_vars, ex_vars>>

\* Indexador.__init__
IndexadorInit ==
    /\ ix_pc = "inicio"
    /\ arquivo_leitura = FALSE
    /\ arquivo_escrita = FALSE
    /\ lista_invertida = <<>>
    /\ documentos = {}
    /\ modelo = <<>>
    /\ normas_documentos = <<>>

\* Buscador.__init__
BuscadorInit ==
    /\ bs_pc = "inicio"
    /\ bs_config = {}
    /\ modelo_tfidf = <<>>
    /\ bs_normas = <<>>
    /\ consultas = <<>>
    /\ resultados_finais = <<>>
    /\ arquivo_resultados = <<>>

\* GeradorListaInvertida.__init__
GeradorInit ==
    /\ gl_pc = "inicio"
    /\ arquivos_leitura = <<>>
    /\ gl_arquivo_escrita = ArquivoEscritaPadrao
    /\ gl_lista_invertida = <<>>
    /\ arquivo_saida = <<>>

\* the first run of a script
PrimeiraExecucao ==
    /\ execucao = 1
    /\ primeira = <<>>

\* an Indexador run: any configuration file and inverted-list file, no model file yet
Init ==
    /\ programa = "Indexador"
    /\ PrimeiraExecucao
    /\ IndexadorInit
    /\ index_cfg \in SUBSET {"LEIA", "ESCREVA"}
    /\ arquivo_lista \in ArquivosLista(DocIds)
    /\ arquivo_modelo = <<>>
    /\ BuscadorInit
    /\ GeradorInit
    /\ gl_cfg = {}
    /\ fontes = <<>>

\* _ler_config: both instructions are required
LerConfig ==
    /\ ix_pc = "inicio"
    /\ arquivo_leitura' = ("LEIA" \in index_cfg)
    /\ arquivo_escrita' = ("ESCREVA" \in index_cfg)
    /\ ix_pc' = IF "LEIA" \in index_cfg /\ "ESCREVA" \in index_cfg
                THEN "configurado" ELSE "falhou:_ler_config"
    /\ UNCHANGED <<index_cfg, arquivo_lista, lista_invertida, documentos, modelo,
                   normas_documentos, arquivo_modelo, bs_vars, gl_vars, ex_vars>>

\* _carregar_lista_invertida
CarregarListaInvertida ==
    /\ ix_pc = "configurado"
    /\ LET r == CarregarDe(arquivo_lista, lista_invertida, documentos)
       IN  /\ lista_invertida' = r.lista
           /\ documentos' = r.docs
           /\ ix_pc' = IF r.erro THEN "falhou:_carregar_lista_invertida" ELSE "carregado"
    /\ UNCHANGED <<index_cfg, arquivo_lista, arquivo_leitura, arquivo_escrita, modelo,
                   normas_documentos, arquivo_modelo, bs_vars, gl_vars, ex_vars>>

\* _calcular_pesos
CalcularPesos ==
    /\ ix_pc = "carregado"
    /\ LET r == CalcularPesosDe(lista_invertida, documentos, modelo, normas_documentos)
       IN  /\ modelo' = r.modelo
           /\ normas_documentos' = r.normas
           /\ ix_pc' = IF r.erro THEN "falhou:_calcular_pesos" ELSE "calculado"
    /\ UNCHANGED <<index_cfg, arquivo_lista, arquivo_leitura, arquivo_escrita,
                   lista_invertida, documentos, arquivo_modelo, bs_vars, gl_vars,
                   ex_vars>>

\* the model saved even after a stage raised, the failure kept
SalvarModeloMesmoAposFalha ==
    /\ ix_pc \in {"calculado", "falhou:_ler_config", "falhou:_carregar_lista_invertida",
                  "falhou:_calcular_pesos"}
    /\ arquivo_modelo' = IF modelo = <<>> THEN arquivo_modelo
                         ELSE <<ModeloCompleto(modelo, normas_documentos)>>
    /\ ix_pc' = IF ix_pc = "calculado" THEN "fim" ELSE ix_pc
    /\ UNCHANGED <<index_cfg, arquivo_lista, arquivo_leitura, arquivo_escrita,
                   lista_invertida, documentos, modelo, normas_documentos, bs_vars,
                   gl_vars, ex_vars>>

\* _salvar_modelo: an empty model is not written
SalvarModelo ==
    /\ ix_pc = "calculado"
    /\ arquivo_modelo' = IF modelo = <<>> THEN arquivo_modelo
                         ELSE <<ModeloCompleto(modelo, normas_documentos)>>
    /\ ix_pc' = "fim"
    /\ UNCHANGED <<index_cfg, arquivo_lista, arquivo_leitura, arquivo_escrita,
                   lista_invertida, documentos, modelo, normas_documentos, bs_vars,
                   gl_vars, ex_vars>>

Next == LerConfig \/ CarregarListaInvertida \/ CalcularPesos \/ SalvarModelo

Spec == Init /\ [][Next]_vars

\* Indexador.executar has returned
IndexadorTerminou ==
    ix_pc \in {"fim", "falhou:_ler_config", "falhou:_carregar_lista_invertida",
               "falhou:_calcular_pesos", "falhou:_salvar_modelo"}

\* what a run of the Indexador left: its tables in memory and the Model file
Deixado ==
    [ix_pc |-> ix_pc, modelo |-> modelo, normas_documentos |-> normas_documentos,
     arquivo_modelo |-> arquivo_modelo]

\* executar called a second time on the object of the first run
ReexecutarMesmoObjeto ==
    /\ execucao = 1
    /\ IndexadorTerminou
    /\ primeira' = <<Deixado>>
    /\ execucao' = 2
    /\ ix_pc' = "inicio"
    /\ UNCHANGED <<index_cfg, arquivo_lista, arquivo_leitura, arquivo_escrita,
                   lista_invertida, documentos, modelo, normas_documentos,
                   arquivo_modelo, bs_vars, gl_vars, programa>>

\* the script is started again on the same files: __main__ builds a new
\* Indexador, whose __init__ sets every field anew
NovaExecucao ==
    /\ execucao = 1
    /\ IndexadorTerminou
    /\ primeira' = <<Deixado>>
    /\ execucao' = 2
    /\ ix_pc' = "inicio"
    /\ arquivo_leitura' = FALSE
    /\ arquivo_escrita' = FALSE
    /\ lista_invertida' = <<>>
    /\ documentos' = {}
    /\ modelo' = <<>>
    /\ normas_documentos' = <<>>
    /\ UNCHANGED <<index_cfg, arquivo_lista, arquivo_modelo, bs_vars, gl_vars, programa>>

NextDuasExecucoes == Next \/ NovaExecucao

\* two runs of the Indexador script, one after the other, on the same files
SpecDuasExecucoes == Init /\ [][NextDuasExecucoes]_vars

\* a Buscador run: the model file is absent or was left by an Indexador run
InitBuscador ==
    /\ programa = "Buscador"
    /\ PrimeiraExecucao
    /\ IndexadorInit
    /\ index_cfg = {}
    /\ arquivo_lista = <<>>
    /\ arquivo_modelo \in {<<>>} \cup ModelosSalvos
    /\ BuscadorInit
    /\ GeradorInit
    /\ gl_cfg = {}
    /\ fontes = <<>>

\* Buscador._ler_config: the three instructions are required
BuscadorLerConfig ==
    /\ bs_pc = "inicio"
    /\ \E cfg \in SUBSET {"MODELO", "CONSULTAS", "RESULTADOS"} :
          /\ bs_config' = cfg
          /\ bs_pc' = IF cfg = {"MODELO", "CONSULTAS", "RESULTADOS"}
                      THEN "configurado" ELSE "falhou:_ler_config"
    /\ UNCHANGED <<ix_vars, gl_vars, ex_vars, arquivo_modelo,
                   modelo_tfidf, bs_normas, consultas,
                   resultados_finais, arquivo_resultados>>

\* _carregar_modelo: a missing file raises FileNotFoundError
CarregarModelo ==
    /\ bs_pc = "configurado"
    /\ IF arquivo_modelo = <<>>
       THEN /\ bs_pc' = "falhou:_carregar_modelo"
            /\ UNCHANGED <<modelo_tfidf, bs_normas>>
       ELSE /\ modelo_tfidf' = arquivo_modelo[1].modelo_tfidf
            /\ bs_normas' = arquivo_modelo[1].normas_documentos
            /\ bs_pc' = "modelo_carregado"
    /\ UNCHANGED <<ix_vars, gl_vars, ex_vars, arquivo_modelo,
                   bs_config, consultas, resultados_finais,
                   arquivo_resultados>>

\* _carregar_consultas
CarregarConsultas ==
    /\ bs_pc = "modelo_carregado"
    /\ \E f \in ArquivosConsultas : consultas' = CarregarConsultasDe(f, consultas)
    /\ bs_pc' = "consultas_carregadas"
    /\ UNCHANGED <<ix_vars, gl_vars, ex_vars, arquivo_modelo,
                   bs_config, modelo_tfidf, bs_normas,
                   resultados_finais, arquivo_resultados>>

\* _realizar_buscas
RealizarBuscas ==
    /\ bs_pc = "consultas_carregadas"
    /\ resultados_finais' =
           RealizarBuscasDe(consultas, modelo_tfidf, bs_normas, resultados_finais)
    /\ bs_pc' = "buscado"
    /\ UNCHANGED <<ix_vars, gl_vars, ex_vars, arquivo_modelo,
                   bs_config, modelo_tfidf, bs_normas, consultas,
                   arquivo_resultados>>

\* _escrever_resultados: nothing is written when there is no result
EscreverResultados ==
    /\ bs_pc = "buscado"
    /\ arquivo_resultados' = IF resultados_finais = <<>> THEN arquivo_resultados
                             ELSE <<OrdenarPorConsulta(resultados_finais)>>
    /\ bs_pc' = "fim"
    /\ UNCHANGED <<ix_vars, gl_vars, ex_vars, arquivo_modelo,
                   bs_config, modelo_tfidf, bs_normas, consultas,
                   resultados_finais>>

NextBuscador ==
    \/ BuscadorLerConfig
    \/ CarregarModelo
    \/ CarregarConsultas
    \/ RealizarBuscas
    \/ EscreverResultados

SpecBuscador == InitBuscador /\ [][NextBuscador]_vars

\* a GeradorListaInvertida run: any configuration file and collection, no output yet
InitGerador ==
    /\ programa = "Gerador"
    /\ PrimeiraExecucao
    /\ IndexadorInit
    /\ index_cfg = {}
    /\ arquivo_lista = <<>>
    /\ arquivo_modelo = <<>>
    /\ BuscadorInit
    /\ GeradorInit
    /\ gl_cfg \in SUBSET {"LEIA", "ESCREVA"}
    /\ fontes \in Colecoes

\* GeradorListaInvertida._ler_config: every LEIA adds a source file, ESCREVA
\* replaces the output path; an empty list or an empty path raises ValueError
GeradorLerConfig ==
    /\ gl_pc = "inicio"
    /\ LET leitura == IF "LEIA" \in gl_cfg THEN arquivos_leitura \o fontes
                      ELSE arquivos_leitura
           escrita == IF "ESCREVA" \in gl_cfg THEN "lista_invertida.csv"
                      ELSE gl_arquivo_escrita
       IN  /\ arquivos_leitura' = leitura
           /\ gl_arquivo_escrita' = escrita
           /\ gl_pc' = IF leitura = <<>> \/ escrita = ""
                       THEN "falhou:_ler_config" ELSE "configurado"
    /\ UNCHANGED <<ix_vars, arquivo_modelo, bs_vars, gl_cfg, fontes, gl_lista_invertida,
                   arquivo_saida, ex_vars>>

\* _processar_arquivos: never raises
ProcessarArquivos ==
    /\ gl_pc = "configurado"
    /\ gl_lista_invertida' = ProcessarArquivosDe(arquivos_leitura, gl_lista_invertida)
    /\ gl_pc' = "processado"
    /\ UNCHANGED <<ix_vars, arquivo_modelo, bs_vars, gl_cfg, fontes, arquivos_leitura,
                   gl_arquivo_escrita, arquivo_saida, ex_vars>>

\* _escrever_saida: an empty inverted list is not written
EscreverSaida ==
    /\ gl_pc = "processado"
    /\ arquivo_saida' =
           IF gl_lista_invertida = <<>> THEN arquivo_saida
           ELSE <<[caminho |-> gl_arquivo_escrita,
                   linhas |-> LinhasSaida(gl_lista_invertida)]>>
    /\ gl_pc' = "fim"
    /\ UNCHANGED <<ix_vars, arquivo_modelo, bs_vars, gl_cfg, fontes, arquivos_leitura,
                   gl_arquivo_escrita, gl_lista_invertida, ex_vars>>

NextGerador == GeradorLerConfig \/ ProcessarArquivos \/ EscreverSaida

SpecGerador == InitGerador /\ [][NextGerador]_vars

\* the script that runs is the one started: each __main__ builds its own object
\* and calls its executar
ExecutarIndexador == programa = "Indexador" /\ Next

ExecutarBuscador == programa = "Buscador" /\ NextBuscador

ExecutarGerador == programa = "Gerador" /\ NextGerador

NextExecutar == ExecutarIndexador \/ ExecutarBuscador \/ ExecutarGerador

\* one run of any of the three scripts
SpecExecutar == (Init \/ InitBuscador \/ InitGerador) /\ [][NextExecutar]_vars
\* ------------------------------------------------------------- properties
\* the sum of a sequence of integers
RECURSIVE Soma(_)
Soma(s) == IF s = <<>> THEN 0 ELSE Head(s) + Soma(Tail(s))

\* the weight of document d under term t in a weight table, 0 when absent
PesoDe(mod, t, d) ==
    IF DictHas(mod, t) /\ DictHas(DictGet(mod, t), d) THEN DictGet(DictGet(mod, t), d) ELSE 0

\* the documents stored under term t of a weight table
DocsDoTermo(mod, t) == IF DictHas(mod, t) THEN DictKeys(DictGet(mod, t)) ELSE {}

\* the documents that share at least one term with a query
DocsCompartilham(mod, termos) == UNION {DocsDoTermo(mod, termos[j]) : j \in DOMAIN termos}

\* the documents of a ranked result
DocsDoResultado(r) == {r[i][2] : i \in DOMAIN r}

\* a text with at least one non-blank character
TemTermo(texto) == \E k \in DOMAIN texto : texto[k] # " "

\* _realizar_buscas has run
BuscasFeitas == bs_pc \in {"buscado", "fim"}

\* _calcular_pesos has returned
PesosCalculados == ix_pc \in {"calculado", "fim"}

\* C1: for every query with at least one term and at least one term in the weight
\* table, the ranked result holds each document sharing a term with the query
\* exactly once and no other document
T_C1 ==
    BuscasFeitas =>
        \A i \in DOMAIN consultas :
            LET termos == Split(consultas[i][2])
                compartilham == DocsCompartilham(modelo_tfidf, termos)
            IN  (TemTermo(consultas[i][2])
                    /\ \E j \in DOMAIN termos : DictHas(modelo_tfidf, termos[j]))
                => /\ DictHas(resultados_finais, consultas[i][1])
                   /\ LET r == DictGet(resultados_finais, consultas[i][1])
                      IN  /\ DocsDoResultado(r) = compartilham
                          /\ Len(r) = Cardinality(compartilham)

\* a query of two terms of the model whose result holds two documents, each
\* reached through a different term
W_C1 ==
    /\ bs_pc = "fim"
    /\ \E i \in DOMAIN consultas :
          LET termos == Split(consultas[i][2])
          IN  /\ Len(termos) = 2
              /\ termos[1] # termos[2]
              /\ DictHas(modelo_tfidf, termos[1])
              /\ DictHas(modelo_tfidf, termos[2])
              /\ DocsDoTermo(modelo_tfidf, termos[1]) # DocsDoTermo(modelo_tfidf, termos[2])
              /\ DictHas(resultados_finais, consultas[i][1])
              /\ Len(DictGet(resultados_finais, consultas[i][1])) = 2

\* C2 as stated: a document whose stored norm is exactly 0 never appears in a
\* ranked result
CE_C2 ==
    BuscasFeitas =>
        \A i \in DOMAIN resultados_finais :
            \A d \in DocsDoResultado(resultados_finais[i][2]) :
                ~(DictHas(bs_normas, d) /\ DictGet(bs_normas, d) = 0)

\* C2 amended: a document whose stored norm is exactly 0 is kept: it appears in
\* the ranked result of every non-empty query it shares a term with, and its score
\* there is the undivided sum of its weights over the terms of the query
T_C2 ==
    BuscasFeitas =>
        \A i \in DOMAIN consultas :
            LET termos == Split(consultas[i][2])
            IN  \A d \in DocsCompartilham(modelo_tfidf, termos) :
                    (DictHas(bs_normas, d) /\ DictGet(bs_normas, d) = 0)
                    => /\ DictHas(resultados_finais, consultas[i][1])
                       /\ \E k \in DOMAIN DictGet(resultados_finais, consultas[i][1]) :
                             LET terno == DictGet(resultados_finais, consultas[i][1])[k]
                             IN  /\ terno[2] = d
                                 /\ terno[3] = Soma([j \in DOMAIN termos |->
                                                        PesoDe(modelo_tfidf, termos[j], d)])

\* a ranked result that holds a document of norm 0 next to a document of
\* positive norm
W_C2 ==
    /\ bs_pc = "fim"
    /\ \E i \in DOMAIN resultados_finais :
          /\ \E d \in DocsDoResultado(resultados_finais[i][2]) :
                DictHas(bs_normas, d) /\ DictGet(bs_normas, d) = 0
          /\ \E d \in DocsDoResultado(resultados_finais[i][2]) :
                DictHas(bs_normas, d) /\ DictGet(bs_normas, d) > 0

\* C7: in every ranked result the scores are non-increasing in list order and the
\* rank positions are 1, 2, ..., k in list order
T_C7 ==
    BuscasFeitas =>
        \A i \in DOMAIN resultados_finais :
            LET r == resultados_finais[i][2]
            IN  \A k \in DOMAIN r :
                    /\ r[k][1] = k
                    /\ k < Len(r) => r[k][3] >= r[k + 1][3]

\* a ranked result of two documents with different scores, the first accumulated
\* document ranked second
W_C7 ==
    /\ bs_pc = "fim"
    /\ \E i \in DOMAIN consultas :
          /\ DictHas(resultados_finais, consultas[i][1])
          /\ LET r == DictGet(resultados_finais, consultas[i][1])
                 scores == AcumularScores(Split(consultas[i][2]), modelo_tfidf, <<>>)
             IN  /\ Len(r) = 2
                 /\ r[1][3] > r[2][3]
                 /\ r[2][2] = scores[1][1]

\* C8 as stated: consecutive triples of a ranked result have strictly decreasing
\* scores
CE_C8 ==
    BuscasFeitas =>
        \A i \in DOMAIN resultados_finais :
            LET r == resultados_finais[i][2]
            IN  \A k \in DOMAIN r : k < Len(r) => r[k][3] > r[k + 1][3]

\* C8 amended: a ranked result is descending by score, not strictly: of any two
\* triples the earlier one has a score greater than or equal to the later one
T_C8 ==
    BuscasFeitas =>
        \A i \in DOMAIN resultados_finais :
            LET r == resultados_finais[i][2]
            IN  \A k \in DOMAIN r : \A l \in DOMAIN r : k < l => r[k][3] >= r[l][3]

\* a ranked result in which two documents of positive norm tie on a positive score
W_C8 ==
    /\ bs_pc = "fim"
    /\ \E i \in DOMAIN resultados_finais :
          LET r == resultados_finais[i][2]
          IN  /\ Len(r) = 2
              /\ r[1][3] = r[2][3]
              /\ r[1][3] > 0
              /\ DictGet(bs_normas, r[1][2]) > 0
              /\ DictGet(bs_normas, r[2][2]) > 0

\* C9: a query whose text holds no term gets no entry in the results map and no
\* record in the results file, _realizar_buscas does not raise, and every query
\* that holds a term gets its entry
T_C9 ==
    /\ bs_pc # "falhou:_realizar_buscas"
    /\ BuscasFeitas =>
          \A i \in DOMAIN consultas :
              IF TemTermo(consultas[i][2])
              THEN DictHas(resultados_finais, consultas[i][1])
              ELSE /\ ~DictHas(resultados_finais, consultas[i][1])
                   /\ arquivo_resultados # <<>>
                         => ~DictHas(arquivo_resultados[1], consultas[i][1])

\* a run that ends with a blank query skipped and the query loaded after it
\* answered and written
W_C9 ==
    /\ bs_pc = "fim"
    /\ Len(consultas) = 2
    /\ consultas[1][2] # <<>>
    /\ ~TemTermo(consultas[1][2])
    /\ TemTermo(consultas[2][2])
    /\ arquivo_resultados # <<>>
    /\ DictHas(arquivo_resultados[1], consultas[2][1])
    /\ DictGet(arquivo_resultados[1], consultas[2][1]) # <<>>

\* the documents that appear under any term of a weight table
DocsDoModelo(mod) == UNION {DictKeys(mod[i][2]) : i \in DOMAIN mod}

\* the sum of the squared weights of document d over every term of a weight table
SomaQuadradosDoc(mod, d) ==
    Soma([i \in DOMAIN mod |->
             IF DictHas(mod[i][2], d) THEN DictGet(mod[i][2], d) * DictGet(mod[i][2], d)
             ELSE 0])

\* the number of occurrences of d in an occurrence sequence
Ocorrencias(lista_docs, d) == Cardinality({k \in DOMAIN lista_docs : lista_docs[k] = d})

\* C3: after _calcular_pesos on an inverted list with at least one document, the
\* documents with a norm entry are the documents of the weight table, and each
\* norm is the square root of the sum of the squares of the document's weights
\* over every term that references it
T_C3 ==
    (PesosCalculados /\ documentos # {}) =>
        /\ DictKeys(normas_documentos) = DocsDoModelo(modelo)
        /\ Len(normas_documentos) = Cardinality(DocsDoModelo(modelo))
        /\ \A d \in DocsDoModelo(modelo) :
              DictGet(normas_documentos, d) = RaizInteira(SomaQuadradosDoc(modelo, d))

\* a computed model in which one document has a positive weight under two terms
W_C3 ==
    /\ ix_pc = "fim"
    /\ \A d \in documentos : d > 0
    /\ \E d \in documentos :
          /\ Len(modelo) = 2
          /\ PesoDe(modelo, modelo[1][1], d) > 0
          /\ PesoDe(modelo, modelo[2][1], d) > 0
          /\ DictGet(normas_documentos, d) > PesoDe(modelo, modelo[1][1], d)
          /\ DictGet(normas_documentos, d) > PesoDe(modelo, modelo[2][1], d)

\* C4: after _calcular_pesos, the documents stored under a term t of the inverted
\* list are the distinct ids of t's occurrence sequence, each with freq(t,d) >= 1
\* occurrences and weight (1 + log10(freq(t,d))) * log10(N / docFreq(t))
T_C4 ==
    PesosCalculados =>
        \A i \in DOMAIN lista_invertida :
            LET palavra == lista_invertida[i][1]
                lista_docs == lista_invertida[i][2]
            IN  /\ DocsDoTermo(modelo, palavra) = ConjuntoDe(lista_docs)
                /\ \A d \in ConjuntoDe(lista_docs) :
                      LET freq == Ocorrencias(lista_docs, d)
                          idf == Log10Tabela[Cardinality(documentos)]
                                     - Log10Tabela[Cardinality(ConjuntoDe(lista_docs))]
                      IN  /\ freq >= 1
                          /\ PesoDe(modelo, palavra, d)
                                 = ((Escala + Log10Tabela[freq]) * idf) \div Escala

\* a computed model with a document that occurs twice under a term and a
\* document that occurs once under the same term, both with a positive weight
W_C4 ==
    /\ ix_pc = "fim"
    /\ \A d \in documentos : d > 0
    /\ \E i \in DOMAIN lista_invertida :
          /\ \E d \in documentos :
                /\ Ocorrencias(lista_invertida[i][2], d) = 2
                /\ PesoDe(modelo, lista_invertida[i][1], d) > 0
          /\ \E j \in DOMAIN lista_invertida : \E d \in documentos :
                /\ Ocorrencias(lista_invertida[j][2], d) = 1
                /\ PesoDe(modelo, lista_invertida[j][1], d) > 0

\* C5 as stated: the weight table of the saved Model has no entry of weight 0
CE_C5 ==
    arquivo_modelo # <<>> =>
        \A i \in DOMAIN arquivo_modelo[1].modelo_tfidf :
            \A k \in DOMAIN arquivo_modelo[1].modelo_tfidf[i][2] :
                arquivo_modelo[1].modelo_tfidf[i][2][k][2] # 0

\* C5 amended: the weight table of the saved Model has an entry for every (term,
\* document) pair of the inverted list, zero weights included: the weight of the
\* entry is 0 when the term occurs in every document and positive otherwise
T_C5 ==
    arquivo_modelo # <<>> =>
        \A i \in DOMAIN lista_invertida :
            \A d \in ConjuntoDe(lista_invertida[i][2]) :
                LET mod == arquivo_modelo[1].modelo_tfidf
                    palavra == lista_invertida[i][1]
                IN  /\ DictHas(mod, palavra)
                    /\ DictHas(DictGet(mod, palavra), d)
                    /\ IF ConjuntoDe(lista_invertida[i][2]) = documentos
                       THEN DictGet(DictGet(mod, palavra), d) = 0
                       ELSE DictGet(DictGet(mod, palavra), d) > 0

\* a saved Model with an entry of weight 0 and an entry of positive weight
W_C5 ==
    /\ arquivo_modelo # <<>>
    /\ \A d \in documentos : d > 0
    /\ \E i \in DOMAIN arquivo_modelo[1].modelo_tfidf :
          \E k \in DOMAIN arquivo_modelo[1].modelo_tfidf[i][2] :
              arquivo_modelo[1].modelo_tfidf[i][2][k][2] = 0
    /\ \E i \in DOMAIN arquivo_modelo[1].modelo_tfidf :
          \E k \in DOMAIN arquivo_modelo[1].modelo_tfidf[i][2] :
              arquivo_modelo[1].modelo_tfidf[i][2][k][2] > 0

\* an occurrence list read from the file holds a negative document id
LeuIdNegativo ==
    \E i \in DOMAIN lista_invertida :
        \E k \in DOMAIN lista_invertida[i][2] : lista_invertida[i][2][k] < 0

\* C6: when an occurrence list read by the Indexador holds a negative document
\* id, the weights are not computed and no Model is persisted
CE_C6 == LeuIdNegativo => (~PesosCalculados /\ arquivo_modelo = <<>>)

\* C10 as stated: on an inverted list without documents the run ends with an
\* empty Model (empty weight table, empty norm table) as its output
CE_C10 ==
    (ix_pc = "fim" /\ documentos = {}) => arquivo_modelo = <<ModeloCompleto(<<>>, <<>>)>>

\* C10 amended: on an inverted list without documents _calcular_pesos and
\* _salvar_modelo do not raise and the run ends with an empty weight table and an
\* empty norm table in memory; no Model file is written
T_C10 ==
    (documentos = {}
        /\ ix_pc \in {"calculado", "fim", "falhou:_calcular_pesos", "falhou:_salvar_modelo"})
    => /\ PesosCalculados
       /\ modelo = <<>>
       /\ normas_documentos = <<>>
       /\ arquivo_modelo = <<>>

\* a finished run on a file whose only term has an empty occurrence list
W_C10 ==
    /\ ix_pc = "fim"
    /\ documentos = {}
    /\ lista_invertida # <<>>

\* the first contribution a document receives during accumulation: the position
\* of the first query term whose entries hold it, and its position among them
PrimeiraContribuicao(mod, termos, d) ==
    LET j == CHOOSE a \in DOMAIN termos :
                 /\ d \in DocsDoTermo(mod, termos[a])
                 /\ \A b \in 1..(a - 1) : d \notin DocsDoTermo(mod, termos[b])
        pesos == DictGet(mod, termos[j])
    IN  <<j, CHOOSE k \in DOMAIN pesos : pesos[k][1] = d>>

\* contribution p comes before contribution q
Antes(p, q) == p[1] < q[1] \/ (p[1] = q[1] /\ p[2] < q[2])

\* C16: of two documents of a ranked result with equal scores, the one listed
\* first is the one that received its first score contribution first (query
\* terms in query order, then the order of the term's entries in the weight
\* table); the sort does not reorder them
T_C16 ==
    BuscasFeitas =>
        \A i \in DOMAIN consultas :
            DictHas(resultados_finais, consultas[i][1]) =>
                LET r == DictGet(resultados_finais, consultas[i][1])
                    termos == Split(consultas[i][2])
                IN  \A k \in DOMAIN r : \A l \in DOMAIN r :
                        (k < l /\ r[k][3] = r[l][3])
                        => Antes(PrimeiraContribuicao(modelo_tfidf, termos, r[k][2]),
                                 PrimeiraContribuicao(modelo_tfidf, termos, r[l][2]))

\* a ranked result in which two documents tie on a positive score and the one
\* with the greater document id, reached through the first query term, is first
W_C16 ==
    /\ bs_pc = "fim"
    /\ \E i \in DOMAIN consultas :
          /\ DictHas(resultados_finais, consultas[i][1])
          /\ LET r == DictGet(resultados_finais, consultas[i][1])
                 termos == Split(consultas[i][2])
             IN  /\ Len(r) = 2
                 /\ Len(termos) = 2
                 /\ r[1][3] = r[2][3]
                 /\ r[1][3] > 0
                 /\ r[1][2] > r[2][2]
                 /\ r[1][2] \in DocsDoTermo(modelo_tfidf, termos[1])
                 /\ r[2][2] \notin DocsDoTermo(modelo_tfidf, termos[1])

\* C17: every similarity score of a ranked result lies between 0 and 1
\* inclusive, queries that repeat a term included
CE_C17 ==
    BuscasFeitas =>
        \A i \in DOMAIN resultados_finais :
            \A k \in DOMAIN resultados_finais[i][2] :
                /\ resultados_finais[i][2][k][3] >= 0
                /\ resultados_finais[i][2][k][3] <= Escala

\* the inverted list read from the file holds a term with an empty occurrence list
TemListaVazia == \E i \in DOMAIN lista_invertida : lista_invertida[i][2] = <<>>

\* C18: when the inverted list read by the Indexador holds a term with an empty
\* occurrence list while the collection has a document, the run gets no further
\* than _calcular_pesos, which raises; the weights are never reported computed
\* and no Model file is written
T_C18 ==
    (TemListaVazia /\ documentos # {})
    => /\ ix_pc \in {"falhou:_carregar_lista_invertida", "carregado",
                     "falhou:_calcular_pesos"}
       /\ arquivo_modelo = <<>>

\* _calcular_pesos raised on the empty list of the second term after it had
\* stored the weights of the first term
W_C18 ==
    /\ ix_pc = "falhou:_calcular_pesos"
    /\ \A d \in documentos : d > 0
    /\ Len(lista_invertida) = 2
    /\ lista_invertida[1][2] # <<>>
    /\ lista_invertida[2][2] = <<>>
    /\ DictHas(modelo, lista_invertida[1][1])
    /\ arquivo_modelo = <<>>

\* the distinct document ids of every row of the inverted-list file
IdsDoArquivo == UNION {ConjuntoDe(arquivo_lista[i][2].itens) : i \in DOMAIN arquivo_lista}

\* C14: for every term that _calcular_pesos has given weights, the number of
\* distinct documents of its occurrence list is at least 1 and at most N, the
\* number of distinct document ids of the whole inverted list; its idf
\* log10(N / docFreq) is 0 exactly when docFreq = N, and so are its stored weights
T_C14 ==
    ix_pc \in {"calculado", "fim", "falhou:_calcular_pesos"} =>
        \A i \in DOMAIN modelo :
            LET lista_docs == DictGet(lista_invertida, modelo[i][1])
                docFreq == Cardinality(ConjuntoDe(lista_docs))
                N == Cardinality(IdsDoArquivo)
            IN  /\ Cardinality(documentos) = N
                /\ 1 <= docFreq
                /\ docFreq <= N
                /\ (Log10Razao(N, docFreq) = 0) <=> (docFreq = N)
                /\ \A k \in DOMAIN modelo[i][2] : (modelo[i][2][k][2] = 0) <=> (docFreq = N)

\* a finished run in which the first term occurs in both documents of the
\* collection and the second term in one of them
W_C14 ==
    /\ ix_pc = "fim"
    /\ \A d \in documentos : d > 0
    /\ Cardinality(documentos) = 2
    /\ Len(modelo) = 2
    /\ DocsDoTermo(modelo, modelo[1][1]) = documentos
    /\ Cardinality(DocsDoTermo(modelo, modelo[2][1])) = 1
    /\ \A k \in DOMAIN modelo[1][2] : modelo[1][2][k][2] = 0
    /\ \A k \in DOMAIN modelo[2][2] : modelo[2][2][k][2] > 0

\* C11: in each of the three scripts, a configuration file that lacks the
\* input-location or the output-location instruction makes _ler_config raise:
\* the run ends there with nothing loaded or processed and no output written
CE_C11 ==
    /\ (programa = "Gerador" /\ gl_cfg # {"LEIA", "ESCREVA"} /\ gl_pc # "inicio")
       => /\ gl_pc = "falhou:_ler_config"
          /\ gl_lista_invertida = <<>>
          /\ arquivo_saida = <<>>
    /\ (programa = "Indexador" /\ index_cfg # {"LEIA", "ESCREVA"} /\ ix_pc # "inicio")
       => /\ ix_pc = "falhou:_ler_config"
          /\ lista_invertida = <<>>
          /\ documentos = {}
          /\ modelo = <<>>
          /\ arquivo_modelo = <<>>
    /\ (programa = "Buscador" /\ bs_config # {"MODELO", "CONSULTAS", "RESULTADOS"}
           /\ bs_pc # "inicio")
       => /\ bs_pc = "falhou:_ler_config"
          /\ modelo_tfidf = <<>>
          /\ consultas = <<>>
          /\ resultados_finais = <<>>
          /\ arquivo_resultados = <<>>

\* a source document that cannot be ingested: no RECORDNUM, a RECORDNUM that is
\* no integer, or neither ABSTRACT nor EXTRACT text
Malformado(record) ==
    \/ record.recordnum = <<>>
    \/ InteiroDe(record.recordnum[1]).erro
    \/ (record.abstract = <<>> /\ record.extract = <<>>)

\* the text _processar_arquivos takes from a record
TextoDe(record) == IF record.abstract # <<>> THEN record.abstract ELSE record.extract

\* _processar_arquivos has returned
ArquivosProcessados == gl_pc \in {"processado", "fim"}

\* C12: when a source file that parses holds a single malformed document, every
\* other document of the file, the ones after the malformed one included, is in
\* the inverted list: each of its words lists its record number
CE_C12 ==
    ArquivosProcessados =>
        \A a \in DOMAIN arquivos_leitura :
            LET registros == arquivos_leitura[a].registros
            IN  (arquivos_leitura[a].valido
                    /\ Cardinality({k \in DOMAIN registros : Malformado(registros[k])}) = 1)
                => \A k \in DOMAIN registros :
                       ~Malformado(registros[k]) =>
                           LET palavras == NormalizarPalavra(TextoDe(registros[k]))
                               record_num == InteiroDe(registros[k].recordnum[1]).valor
                           IN  \A j \in DOMAIN palavras :
                                   /\ DictHas(gl_lista_invertida, palavras[j])
                                   /\ record_num \in
                                          ConjuntoDe(DictGet(gl_lista_invertida, palavras[j]))

\* Indexador.executar caught an exception of the stage named and logged it
FalhasIndexador ==
    {"falhou:_ler_config", "falhou:_carregar_lista_invertida", "falhou:_calcular_pesos",
     "falhou:_salvar_modelo"}

\* Buscador.executar caught an exception of the stage named and logged it
FalhasBuscador ==
    {"falhou:_ler_config", "falhou:_carregar_modelo", "falhou:_carregar_consultas",
     "falhou:_realizar_buscas", "falhou:_escrever_resultados"}

====
